---- MODULE Spec2Model ----
(***************************************************************************)
(* Model of loggercv/logger.py: the Logger facade over the process-wide    *)
(* registry of the standard logging package.                               *)
(*                                                                         *)
(* The state is the file system (directories, log files), the standard     *)
(* streams, the registry of named loggers (logging.root.manager.loggerDict)*)
(* and the Logger facades constructed so far in the running process.       *)
(* Logger names are flat (no dots), so the parent of every named logger is *)
(* the root logger, which has no handlers and level WARNING.               *)
(***************************************************************************)
EXTENDS Integers, Sequences, FiniteSets, TLC

\* ------------------------------------------------------------------ bounds
MaxFacades == 2
MaxOps == 3
MaxRestarts == 1

\* --------------------------------------------------------------- constants
NOTSET == 0
DEBUG == 10
INFO == 20
WARNING == 30
ERROR == 40
CRITICAL == 50

Severities == {DEBUG, INFO, WARNING, ERROR, CRITICAL}
Methods == {"debug", "info", "warning", "error", "critical", "exception", "log"}
NoGroup == "None"
Groups == {"group_1", "group_2"}

\* ------------------------------------------------------------------ inputs
Names == {"A", "B"}
LogsBaseDir == <<"logs">>
NoLogDir == "None"
LogDirs == {NoLogDir, "Test_Module"}
ConsoleLevels == {INFO, ERROR}
FileLevels == {DEBUG, WARNING}
InitialGroups == {{}, {"group_1"}}
UpdateGroups == {{}, {"group_1"}, {"group_2"}}
Config(o, cl, fl, p) ==
    [log_options |-> o, console_debug_lvl |-> cl, file_debug_level |-> fl, propagate |-> p]
Configs ==
    {Config("NO", INFO, DEBUG, FALSE)}
    \cup {Config("FILE_ONLY", INFO, fl, FALSE) : fl \in FileLevels}
    \cup {Config("FILE_AND_CONSOLE", cl, fl, FALSE) : cl \in ConsoleLevels, fl \in FileLevels}
    \cup {Config(o, INFO, DEBUG, TRUE) : o \in {"FILE_ONLY", "FILE_AND_CONSOLE"}}
DirStates == {{}, {LogsBaseDir}}

VARIABLES dirs, files, console, stderr, loggerDict, facades, last,
          supplied, installed, ops, restarts

vars == <<dirs, files, console, stderr, loggerDict, facades, last,
          supplied, installed, ops, restarts>>

\* ----------------------------------------------------------------- helpers
NoMsg == [kind |-> "none", name |-> "", dir |-> <<>>, groups |-> {}]
UserMsg == [kind |-> "user", name |-> "", dir |-> <<>>, groups |-> {}]
InitMsg(log_name) ==
    [kind |-> "Initialized logger for", name |-> log_name, dir |-> <<>>, groups |-> {}]
PathMsg(log_file_path) ==
    [kind |-> "Saving log to", name |-> log_file_path.name,
     dir |-> log_file_path.dir, groups |-> {}]
FilterMsg(filtered_groups) ==
    [kind |-> "Filtering out log groups", name |-> "", dir |-> <<>>,
     groups |-> filtered_groups]

NoRecord == [levelno |-> NOTSET, log_group |-> NoGroup, exc_info |-> FALSE, msg |-> NoMsg]
NoPath == [dir |-> <<>>, name |-> ""]

\* The level a leveled method logs at; exception() logs at ERROR with the
\* active error context attached, log() at the severity it is given.
MethodLevel(method, severity) ==
    CASE method = "debug" -> DEBUG
      [] method = "info" -> INFO
      [] method = "warning" -> WARNING
      [] method = "error" -> ERROR
      [] method = "critical" -> CRITICAL
      [] method = "exception" -> ERROR
      [] OTHER -> severity

MakeRecord(method, severity, msg, log_group) ==
    [levelno |-> MethodLevel(method, severity), log_group |-> log_group,
     exc_info |-> (method = "exception"), msg |-> msg]

\* ------------------------------------------------------------- file system
join(logs_base_dir, log_dir) == Append(logs_base_dir, log_dir)

current_log_dir_full_path(logs_base_dir, log_dir) ==
    IF log_dir # NoLogDir THEN join(logs_base_dir, log_dir) ELSE logs_base_dir

log_file_path(dir, log_name) == [dir |-> dir, name |-> log_name]

isdir(ds, p) == p \in ds

mkdir(ds, p) == ds \cup {SubSeq(p, 1, k) : k \in 1..Len(p)}

\* lines 50-54 of __init__: the directory check.  raised: the constructor
\* raises; dirs: the directories afterwards
EnsureDirAlwaysCreates(ds, dir, create_dir) ==
    [raised |-> FALSE, dirs |-> IF isdir(ds, dir) THEN ds ELSE mkdir(ds, dir)]

ensure_dir(ds, dir, create_dir) ==
    IF ~isdir(ds, dir)
    THEN IF create_dir
         THEN [raised |-> FALSE, dirs |-> mkdir(ds, dir)]
         ELSE [raised |-> TRUE, dirs |-> ds]
    ELSE [raised |-> FALSE, dirs |-> ds]

\* open(filename, 'w') in place of 'a'
OpenTruncate(fs, path) ==
    [q \in DOMAIN fs \cup {path} |-> IF q = path THEN <<>> ELSE fs[q]]

\* open(filename, 'a') of logging.FileHandler: creates the file when it is
\* missing and keeps the content of an existing one
OpenAppend(fs, path) ==
    IF path \in DOMAIN fs THEN fs
    ELSE [q \in DOMAIN fs \cup {path} |-> IF q = path THEN <<>> ELSE fs[q]]

\* ----------------------------------------------------------------- logging
NewLogger == [level |-> NOTSET, disabled |-> FALSE, propagate |-> TRUE,
              handlers |-> <<>>, filters |-> <<>>]

getLogger(ld, name) ==
    IF name \in DOMAIN ld THEN ld
    ELSE [n \in DOMAIN ld \cup {name} |-> IF n = name THEN NewLogger ELSE ld[n]]

console_handler(console_debug_lvl) ==
    [class |-> "StreamHandler", level |-> console_debug_lvl,
     formatter |-> "clear_with_time_msec_format", filename |-> NoPath]

file_handler(file_debug_level, path) ==
    [class |-> "FileHandler", level |-> file_debug_level,
     formatter |-> "clear_with_full_date_msec_format", filename |-> path]

handlers_list(log_options, console_debug_lvl, file_debug_level, path) ==
    IF log_options = "FILE_ONLY"
    THEN <<file_handler(file_debug_level, path)>>
    ELSE <<console_handler(console_debug_lvl), file_handler(file_debug_level, path)>>

\* the existing handlers stay attached
KeepOldHandlers(logger, handlers) ==
    [logger EXCEPT !.level = DEBUG, !.handlers = @ \o handlers]

\* DictConfigurator.common_logger_config for the configured logger: the level
\* is set, the existing handlers are removed and the new ones added.  The
\* filters of the logger are left as they are.
common_logger_config(logger, handlers) ==
    [logger EXCEPT !.level = DEBUG, !.handlers = handlers]

\* logging.config.dictConfig(logging_config) with disable_existing_loggers
\* False: the named logger is (re)configured and enabled, and every other
\* existing logger gets disabled = False.
dictConfig(ld, name, handlers, propagate) ==
    LET ld1 == getLogger(ld, name)
    IN  [n \in DOMAIN ld1 |->
            IF n = name
            THEN [common_logger_config(ld1[n], handlers)
                     EXCEPT !.disabled = FALSE, !.propagate = propagate]
            ELSE [ld1[n] EXCEPT !.disabled = FALSE]]

\* a filter that drops nothing
FilterAcceptsAll(filtered_groups, record) == TRUE

\* Logger.FilterLogGroups.filter
FilterLogGroups_filter(filtered_groups, record) ==
    IF record.log_group \in filtered_groups THEN FALSE ELSE TRUE

\* Filterer.filter: every filter of the logger must accept the record
LoggerFilter(logger, record) ==
    \A i \in 1..Len(logger.filters) : FilterLogGroups_filter(logger.filters[i], record)

\* the new filter takes the place of the installed ones
ReplaceFilters(logger, filtered_groups) ==
    [logger EXCEPT !.filters = <<filtered_groups>>]

\* Filterer.addFilter: a new filter object is appended
addFilter(logger, filtered_groups) ==
    [logger EXCEPT !.filters = Append(@, filtered_groups)]

getEffectiveLevel(logger) == IF logger.level # NOTSET THEN logger.level ELSE WARNING

\* the text one handler writes for a record: the formatted line, followed by
\* the error context when the record carries one
Format(fmt, record) ==
    <<[fmt |-> fmt, levelno |-> record.levelno, msg |-> record.msg]>>
    \o (IF record.exc_info
        THEN <<[fmt |-> "exc_text", levelno |-> record.levelno, msg |-> record.msg]>>
        ELSE <<>>)

\* a handler that ignores its level
HandlerAcceptsAnyLevel(hdlr, record) == TRUE

\* Handler level gate of Logger.callHandlers
HandlerAccepts(hdlr, record) == record.levelno >= hdlr.level

\* the part of the process state an emission changes
Out(f, c, e) == [files |-> f, console |-> c, stderr |-> e]

\* the file handler writes at the start of the file
HandlerEmitOverwrite(out, hdlr, record) ==
    IF hdlr.class = "StreamHandler"
    THEN [out EXCEPT !.console = @ \o Format(hdlr.formatter, record)]
    ELSE [out EXCEPT !.files[hdlr.filename] = Format(hdlr.formatter, record)]

\* StreamHandler.emit / FileHandler.emit: the text is added at the end of
\* the stream, standard output or the log file opened for appending
HandlerEmit(out, hdlr, record) ==
    IF hdlr.class = "StreamHandler"
    THEN [out EXCEPT !.console = @ \o Format(hdlr.formatter, record)]
    ELSE [out EXCEPT !.files[hdlr.filename] = @ \o Format(hdlr.formatter, record)]

RECURSIVE HandleAll(_, _, _, _)
HandleAll(out, handlers, i, record) ==
    IF i > Len(handlers) THEN out
    ELSE HandleAll(IF HandlerAccepts(handlers[i], record)
                   THEN HandlerEmit(out, handlers[i], record) ELSE out,
                   handlers, i + 1, record)

\* the root logger: never configured by this program, so without handlers
RootHandlers == <<>>

\* Logger.callHandlers: the handlers of the logger and, when it propagates,
\* of its parent the root logger; lastResort (standard error, level WARNING)
\* when no handler was found
callHandlers(out, logger, record) ==
    LET chain == logger.handlers \o (IF logger.propagate THEN RootHandlers ELSE <<>>)
    IN  IF Len(chain) = 0
        THEN IF record.levelno >= WARNING
             THEN [out EXCEPT !.stderr = @ \o Format("lastResort", record)]
             ELSE out
        ELSE HandleAll(out, chain, 1, record)

\* Logger.log / Logger.handle of the logging package
LoggerLog(out, logger, record) ==
    IF logger.disabled THEN out
    ELSE IF record.levelno < getEffectiveLevel(logger) THEN out
    ELSE IF ~LoggerFilter(logger, record) THEN out
    ELSE callHandlers(out, logger, record)

\* ------------------------------------------------------------------ facade
EmitEv(record) == [ev |-> "emit", record |-> record, groups |-> {}]
FilterEv(filtered_groups) == [ev |-> "addFilter", record |-> NoRecord, groups |-> filtered_groups]

\* process state threaded through the body of a method: the registry, the
\* outputs and the calls made so far
PS(ld, out, steps) == [ld |-> ld, out |-> out, steps |-> steps]

\* Logger.info .. Logger.log: forward the record to the named logger
FacadeLog(ps, log_name, record) ==
    [ps EXCEPT !.out = LoggerLog(ps.out, ps.ld[log_name], record),
               !.steps = Append(@, EmitEv(record))]

\* the announcement is logged before the filter is installed
AnnounceBeforeFilter(ps, log_name, filtered_groups) ==
    LET ps1 == IF filtered_groups # {}
               THEN FacadeLog(ps, log_name,
                              MakeRecord("info", INFO, FilterMsg(filtered_groups), NoGroup))
               ELSE ps
    IN  [ps1 EXCEPT !.ld[log_name] = addFilter(@, filtered_groups),
                    !.steps = Append(@, FilterEv(filtered_groups))]

\* Logger.update_filtered_groups
update_filtered_groups(ps, log_name, filtered_groups) ==
    LET ps1 == [ps EXCEPT !.ld[log_name] = addFilter(@, filtered_groups),
                          !.steps = Append(@, FilterEv(filtered_groups))]
    IN  IF filtered_groups # {}
        THEN FacadeLog(ps1, log_name,
                       MakeRecord("info", INFO, FilterMsg(filtered_groups), NoGroup))
        ELSE ps1

\* a Logger object, with the arguments it was constructed with;
\* filtered_groups is the set most recently given to it
Facade(log_name, dir, path, log_options, clvl, flvl, filtered_groups) ==
    [log_name |-> log_name, current_log_dir_full_path |-> dir, log_file_path |-> path,
     log_options |-> log_options, console_debug_lvl |-> clvl,
     file_debug_level |-> flvl, filtered_groups |-> filtered_groups]

Args(log_options, create_dir, dir) ==
    [log_options |-> log_options, create_dir |-> create_dir, dir |-> dir]
NoArgs == Args("", FALSE, <<>>)

\* the operation that ran last: its name, the facade it ran on (0: none),
\* its result, the record it logged, the calls it made and, for a
\* construction, its arguments
Last(op, facade, log_name, result, record, steps, args) ==
    [op |-> op, facade |-> facade, log_name |-> log_name, result |-> result,
     record |-> record, steps |-> steps, args |-> args]

\* ---------------------------------------------------------------- behaviour
Init ==
    /\ dirs \in DirStates
    /\ files = <<>>
    /\ console = <<>>
    /\ stderr = <<>>
    /\ loggerDict = <<>>
    /\ facades = <<>>
    /\ last = Last("start", 0, "", "ok", NoRecord, <<>>, NoArgs)
    /\ supplied = [n \in Names |-> {}]
    /\ installed = [n \in Names |-> {}]
    /\ ops = 0
    /\ restarts = 0

\* __init__, lines 37-41: log_options is LoggerOptions.NO
InitDisabled(log_name, dir, create_dir, filtered_groups) ==
    /\ loggerDict' = [getLogger(loggerDict, log_name) EXCEPT ![log_name].disabled = TRUE]
    /\ facades' = Append(facades, Facade(log_name, <<>>, NoPath, "NO", NOTSET, NOTSET,
                                         filtered_groups))
    /\ last' = Last("construct", Len(facades) + 1, log_name, "ok", NoRecord, <<>>,
                    Args("NO", create_dir, dir))
    /\ supplied' = [supplied EXCEPT ![log_name] = @ \cup filtered_groups]
    /\ UNCHANGED <<dirs, files, console, stderr, installed>>

\* __init__, line 54: the directory is missing and create_dir is False
InitRaise(log_name, dir, create_dir, log_options) ==
    /\ last' = Last("construct", 0, log_name, "Exception", NoRecord, <<>>,
                    Args(log_options, create_dir, dir))
    /\ UNCHANGED <<dirs, files, console, stderr, loggerDict, facades, supplied, installed>>

\* __init__, lines 56-116: the logger is configured, the welcome records are
\* logged and the filter is added
InitConfigured(log_name, dir, create_dir, log_options, clvl, flvl, filtered_groups, propagate) ==
    LET path == log_file_path(dir, log_name)
        hl == handlers_list(log_options, clvl, flvl, path)
        ld1 == dictConfig(loggerDict, log_name, hl, propagate)
        ps0 == PS(ld1, Out(OpenAppend(files, path), console, stderr), <<>>)
        ps1 == FacadeLog(ps0, log_name, MakeRecord("info", INFO, InitMsg(log_name), NoGroup))
        ps2 == FacadeLog(ps1, log_name, MakeRecord("info", INFO, PathMsg(path), NoGroup))
        ps3 == update_filtered_groups(ps2, log_name, filtered_groups)
    IN  /\ dirs' = ensure_dir(dirs, dir, create_dir).dirs
        /\ files' = ps3.out.files
        /\ console' = ps3.out.console
        /\ stderr' = ps3.out.stderr
        /\ loggerDict' = ps3.ld
        /\ facades' = Append(facades, Facade(log_name, dir, path, log_options, clvl, flvl,
                                             filtered_groups))
        /\ last' = Last("construct", Len(facades) + 1, log_name, "ok", NoRecord, ps3.steps,
                        Args(log_options, create_dir, dir))
        /\ supplied' = [supplied EXCEPT ![log_name] = @ \cup filtered_groups]
        /\ installed' = [installed EXCEPT ![log_name] = @ \cup filtered_groups]

\* Logger.__init__
Logger_init(log_name, log_dir, create_dir, log_options, clvl, flvl, filtered_groups, propagate) ==
    LET dir == current_log_dir_full_path(LogsBaseDir, log_dir)
    IN  /\ ops < MaxOps
        /\ Len(facades) < MaxFacades
        /\ ops' = ops + 1
        /\ UNCHANGED restarts
        /\ IF log_options = "NO"
           THEN InitDisabled(log_name, dir, create_dir, filtered_groups)
           ELSE IF ensure_dir(dirs, dir, create_dir).raised
           THEN InitRaise(log_name, dir, create_dir, log_options)
           ELSE InitConfigured(log_name, dir, create_dir, log_options, clvl, flvl,
                               filtered_groups, propagate)

\* Logger.update_filtered_groups called on facade f
Update(f, filtered_groups) ==
    LET log_name == facades[f].log_name
        ps == update_filtered_groups(PS(loggerDict, Out(files, console, stderr), <<>>),
                                     log_name, filtered_groups)
    IN  /\ ops < MaxOps
        /\ files' = ps.out.files
        /\ console' = ps.out.console
        /\ stderr' = ps.out.stderr
        /\ loggerDict' = ps.ld
        /\ facades' = [facades EXCEPT ![f].filtered_groups = filtered_groups]
        /\ last' = Last("update", f, log_name, "ok", NoRecord, ps.steps, NoArgs)
        /\ supplied' = [supplied EXCEPT ![log_name] = @ \cup filtered_groups]
        /\ installed' = [installed EXCEPT ![log_name] = @ \cup filtered_groups]
        /\ ops' = ops + 1
        /\ UNCHANGED <<dirs, restarts>>

\* Logger.debug/info/warning/error/critical/exception/log called on facade f
Emit(f, method, severity, log_group) ==
    LET log_name == facades[f].log_name
        record == MakeRecord(method, severity, UserMsg, log_group)
        ps == FacadeLog(PS(loggerDict, Out(files, console, stderr), <<>>), log_name, record)
    IN  /\ ops < MaxOps
        /\ files' = ps.out.files
        /\ console' = ps.out.console
        /\ stderr' = ps.out.stderr
        /\ last' = Last("emit", f, log_name, "ok", record, ps.steps, NoArgs)
        /\ ops' = ops + 1
        /\ UNCHANGED <<dirs, loggerDict, facades, supplied, installed, restarts>>

\* the process ends and the program is run again: the file system stays; the
\* registry of loggers, the facades and the standard streams are new
Restart ==
    /\ ops < MaxOps
    /\ restarts < MaxRestarts
    /\ facades # <<>>
    /\ loggerDict' = <<>>
    /\ facades' = <<>>
    /\ console' = <<>>
    /\ stderr' = <<>>
    /\ supplied' = [n \in Names |-> {}]
    /\ installed' = [n \in Names |-> {}]
    /\ last' = Last("restart", 0, "", "ok", NoRecord, <<>>, NoArgs)
    /\ ops' = ops + 1
    /\ restarts' = restarts + 1
    /\ UNCHANGED <<dirs, files>>

Next ==
    \/ \E n \in Names, d \in LogDirs, c \in BOOLEAN, cfg \in Configs, g \in InitialGroups :
          Logger_init(n, d, c, cfg.log_options, cfg.console_debug_lvl,
                      cfg.file_debug_level, g, cfg.propagate)
    \/ \E f \in 1..Len(facades), g \in UpdateGroups : Update(f, g)
    \/ \E f \in 1..Len(facades), m \in Methods, g \in Groups \cup {NoGroup} :
          \E s \in (IF m = "log" THEN Severities ELSE {MethodLevel(m, NOTSET)}) :
             Emit(f, m, s, g)
    \/ Restart

Spec == Init /\ [][Next]_vars

\* -------------------------------------------------------------- properties
IsPrefix(s, t) == Len(s) <= Len(t) /\ SubSeq(t, 1, Len(s)) = s
Content(fs, p) == IF p \in DOMAIN fs THEN fs[p] ELSE <<>>
Added(old, new) == SubSeq(new, Len(old) + 1, Len(new))
FileLines(record) == Format("clear_with_full_date_msec_format", record)
ConsoleLines(record) == Format("clear_with_time_msec_format", record)
InfoRecord(msg) == MakeRecord("info", INFO, msg, NoGroup)

\* the groups the logger named n drops
Suppressed(n) ==
    IF n \in DOMAIN loggerDict
    THEN {g \in Groups : ~LoggerFilter(loggerDict[n], [NoRecord EXCEPT !.log_group = g])}
    ELSE {}

\* the configured (non-disabled) facades named n, and the latest of them
Configured(n) ==
    {i \in 1..Len(facades) : facades[i].log_name = n /\ facades[i].log_options # "NO"}
LatestConfigured(n) == CHOOSE i \in Configured(n) : \A j \in Configured(n) : j <= i

\* some handler of the logger takes a record of this level
SomeHandlerAccepts(logger, record) ==
    \E i \in 1..Len(logger.handlers) : HandlerAccepts(logger.handlers[i], record)

\* C1: a record logged through a non-disabled facade with a group of the set
\* most recently given to that facade adds no line to any file nor to the
\* console, whatever its severity; a record without group passes the filters
\* and is written whenever the logger is enabled and a handler takes its level.
C1_SuppressedGroupDropped ==
    [][(last'.op = "emit" /\ facades[last'.facade].log_options # "NO") =>
          LET f == facades[last'.facade]
              lg == loggerDict[f.log_name]
              r == last'.record
          IN  /\ r.log_group \in f.filtered_groups =>
                    files' = files /\ console' = console /\ stderr' = stderr
              /\ r.log_group = NoGroup =>
                    /\ LoggerFilter(lg, r)
                    /\ (~lg.disabled /\ SomeHandlerAccepts(lg, r)) =>
                          <<files', console'>> # <<files, console>>]_vars

\* a record of a group suppressed by an update (not by the initial set) was
\* logged through an enabled logger with a handler taking its level
C1_Witness ==
    /\ last.op = "emit"
    /\ facades[last.facade].log_options # "NO"
    /\ last.record.log_group \in facades[last.facade].filtered_groups
    /\ LET lg == loggerDict[last.log_name]
       IN  /\ ~lg.disabled
           /\ Len(lg.filters) >= 2
           /\ last.record.log_group \notin lg.filters[1]
           /\ SomeHandlerAccepts(lg, last.record)

\* C2: after update_filtered_groups(G) the groups dropped for the logger of
\* the facade are exactly G.
C2_UpdateReplaces ==
    last.op = "update" => Suppressed(last.log_name) = facades[last.facade].filtered_groups

\* C3: the construction of a facade with LoggerOptions.NO touches neither
\* directories nor files, and no call on such a facade ever adds a line to a
\* file, to standard output or to standard error.
C3_DisabledSilent ==
    [][/\ (last'.op = "construct" /\ last'.args.log_options = "NO") =>
              /\ last'.result = "ok"
              /\ dirs' = dirs /\ files' = files
              /\ console' = console /\ stderr' = stderr
       /\ (last'.op = "emit" /\ facades[last'.facade].log_options = "NO") =>
              files' = files /\ console' = console /\ stderr' = stderr]_vars

\* the two initialization lines, next to each other in the file
HasInitLines(content, path) ==
    \E i \in 1..(Len(content) - 1) :
        /\ <<content[i]>> = FileLines(InfoRecord(InitMsg(path.name)))
        /\ <<content[i + 1]>> = FileLines(InfoRecord(PathMsg(path)))

\* C4 as stated: after every successful non-disabled construction the log
\* file exists, is non-empty and holds the two initialization lines.
C4_FileHasInitLines ==
    (last.op = "construct" /\ last.result = "ok" /\ last.args.log_options # "NO") =>
        LET path == facades[last.facade].log_file_path
        IN  /\ path \in DOMAIN files
            /\ files[path] # <<>>
            /\ HasInitLines(files[path], path)

\* the lines a construction with file_debug_level <= INFO adds to its file
InitLines(f) ==
    FileLines(InfoRecord(InitMsg(f.log_name)))
    \o FileLines(InfoRecord(PathMsg(f.log_file_path)))
    \o (IF f.filtered_groups # {}
        THEN FileLines(InfoRecord(FilterMsg(f.filtered_groups))) ELSE <<>>)

\* C4 amended: after every successful non-disabled construction the log file
\* exists; if file_debug_level <= INFO the construction has added the two
\* initialization lines (and the filter announcement, if any) at its end, so
\* it is non-empty; with a higher file_debug_level it has added nothing.
C4_FileExistsInitLinesIfInfo ==
    [][(last'.op = "construct" /\ last'.result = "ok" /\ last'.args.log_options # "NO") =>
          LET f == facades'[last'.facade]
              old == Content(files, f.log_file_path)
          IN  /\ f.log_file_path \in DOMAIN files'
              /\ files'[f.log_file_path] =
                    old \o (IF f.file_debug_level <= INFO THEN InitLines(f) ELSE <<>>)]_vars

\* a construction with file threshold WARNING left a new log file empty
C4_Witness ==
    /\ last.op = "construct" /\ last.result = "ok"
    /\ last.args.log_options # "NO"
    /\ facades[last.facade].file_debug_level = WARNING
    /\ files[facades[last.facade].log_file_path] = <<>>

\* C5: the constructor raises iff log_options is not NO, create_dir is False
\* and the effective directory is missing, and then changes nothing; a
\* successful non-disabled construction on a missing directory creates it and
\* its parents, and every log file lies in an existing directory.
C5_RaisesIffMissingDirNoCreate ==
    /\ [](\A p \in DOMAIN files : isdir(dirs, p.dir))
    /\ [][last'.op = "construct" =>
            LET a == last'.args
            IN  /\ last'.result = "Exception" <=>
                      (a.log_options # "NO" /\ ~a.create_dir /\ ~isdir(dirs, a.dir))
                /\ last'.result = "Exception" =>
                      UNCHANGED <<dirs, files, console, stderr, loggerDict, facades>>
                /\ (last'.result = "ok" /\ a.log_options # "NO") =>
                      /\ \A k \in 1..Len(a.dir) : isdir(dirs', SubSeq(a.dir, 1, k))
                      /\ log_file_path(a.dir, last'.log_name) \in DOMAIN files'
                      /\ \A d \in dirs' \ dirs : a.create_dir]_vars

\* a construction raised on a missing directory
C5_Witness ==
    /\ last.op = "construct" /\ last.result = "Exception"
    /\ ~last.args.create_dir
    /\ ~isdir(dirs, last.args.dir)
    /\ Len(last.args.dir) = 2

\* what an emission through facade f does when the sinks are those of
\* configuration c (a facade record)
WrittenPer(c, r) ==
    /\ Content(files', c.log_file_path) =
          Content(files, c.log_file_path)
          \o (IF c.file_debug_level <= r.levelno THEN FileLines(r) ELSE <<>>)
    /\ console' =
          console \o (IF c.log_options = "FILE_AND_CONSOLE" /\ c.console_debug_lvl <= r.levelno
                      THEN ConsoleLines(r) ELSE <<>>)

\* C6 as stated: a record not dropped by the filter, logged through a
\* non-disabled facade, is written to the file iff the file threshold of that
\* facade permits it and to the console iff the facade is FILE_AND_CONSOLE and
\* its console threshold permits it.
C6_OwnThresholdsGate ==
    [][(last'.op = "emit" /\ facades[last'.facade].log_options # "NO"
        /\ LoggerFilter(loggerDict[last'.log_name], last'.record)) =>
          WrittenPer(facades[last'.facade], last'.record)]_vars

\* C6 amended: the same, with the mode, thresholds and file of the latest
\* non-disabled construction for the name of the facade, and while the named
\* logger is not disabled.
C6_InstalledThresholdsGate ==
    [][(last'.op = "emit" /\ facades[last'.facade].log_options # "NO"
        /\ LoggerFilter(loggerDict[last'.log_name], last'.record)
        /\ ~loggerDict[last'.log_name].disabled) =>
          WrittenPer(facades[LatestConfigured(last'.log_name)], last'.record)]_vars

\* console threshold ERROR, file threshold DEBUG: an INFO record went to the
\* file and not to the console
C6_Witness ==
    /\ last.op = "emit" /\ last.record.levelno = INFO /\ ~last.record.exc_info
    /\ LET f == facades[last.facade]
       IN  /\ f.log_options = "FILE_AND_CONSOLE"
           /\ f.console_debug_lvl = ERROR
           /\ f.file_debug_level = DEBUG
           /\ console = <<>>
           /\ Len(files[f.log_file_path]) >= 3
           /\ files[f.log_file_path][Len(files[f.log_file_path])].msg = UserMsg

\* every file keeps its content as a prefix
AppendOnly ==
    \A p \in DOMAIN files : p \in DOMAIN files' /\ IsPrefix(files[p], files'[p])

\* C7 as stated: no step truncates or rewrites a log file, and a written
\* record adds exactly one line at the end.
C7_AppendOnlyOneLine ==
    [][/\ AppendOnly
       /\ last'.op = "emit" =>
             \A p \in DOMAIN files' : Len(files'[p]) - Len(Content(files, p)) \in {0, 1}]_vars

\* C7 amended: no step truncates or rewrites a log file; a written record adds
\* exactly one line at the end, followed, for exception(), by the text of the
\* error context.
C7_AppendOnly ==
    [][/\ AppendOnly
       /\ last'.op = "emit" =>
             \A p \in DOMAIN files' :
                \/ files'[p] = Content(files, p)
                \/ /\ files'[p] = Content(files, p) \o FileLines(last'.record)
                   /\ Len(FileLines(last'.record)) = IF last'.record.exc_info THEN 2 ELSE 1]_vars

\* in a second run a facade was constructed on the log file of the first run
\* and the lines of the first run are still there, before the new ones
C7_Witness ==
    /\ restarts = 1
    /\ last.op = "construct" /\ last.result = "ok" /\ last.args.log_options # "NO"
    /\ Len(files[facades[last.facade].log_file_path]) >= 4

\* the calls update_filtered_groups(G) makes
UpdateSteps(G) ==
    <<FilterEv(G)>> \o (IF G # {} THEN <<EmitEv(InfoRecord(FilterMsg(G)))>> ELSE <<>>)

\* C8: a successful non-disabled construction logs the two initialization
\* records and only then installs the filter; update_filtered_groups(G)
\* installs the filter and then, iff G is not empty, logs one INFO record
\* without group that lists G.
C8_Ordering ==
    /\ (last.op = "construct" /\ last.result = "ok" /\ last.args.log_options # "NO") =>
          LET f == facades[last.facade]
          IN  last.steps = <<EmitEv(InfoRecord(InitMsg(f.log_name))),
                             EmitEv(InfoRecord(PathMsg(f.log_file_path)))>>
                           \o UpdateSteps(f.filtered_groups)
    /\ last.op = "update" => last.steps = UpdateSteps(facades[last.facade].filtered_groups)

\* a construction with a non-empty initial set made its four calls
C8_Witness ==
    /\ last.op = "construct" /\ last.result = "ok"
    /\ facades[last.facade].filtered_groups # {}
    /\ Len(last.steps) = 4

\* C9: once two non-disabled facades share a name, a record logged through
\* either of them reaches only the sinks of the later configuration: its file
\* and, if it has one, its console under its thresholds; every other file,
\* the file of the earlier facade included, is left as it is.
C9_LastConfigurationWins ==
    [][(last'.op = "emit" /\ Cardinality(Configured(last'.log_name)) >= 2) =>
          LET b == facades[LatestConfigured(last'.log_name)]
              r == last'.record
              lg == loggerDict[last'.log_name]
          IN  /\ \A p \in DOMAIN files' : p # b.log_file_path => files'[p] = Content(files, p)
              /\ stderr' = stderr
              /\ (b.log_options = "FILE_ONLY" \/ r.levelno < b.console_debug_lvl) =>
                    console' = console
              /\ r.levelno < b.file_debug_level => files' = files
              /\ (~lg.disabled /\ LoggerFilter(lg, r)) => WrittenPer(b, r)]_vars

\* a record logged through the earlier of two facades of one name went to the
\* file of the later one, which is another file
C9_Witness ==
    /\ last.op = "emit" /\ last.facade = 1 /\ Len(facades) = 2
    /\ facades[1].log_name = facades[2].log_name
    /\ facades[1].log_options # "NO" /\ facades[2].log_options # "NO"
    /\ facades[1].log_file_path # facades[2].log_file_path
    /\ LET c == files[facades[2].log_file_path]
       IN  c # <<>> /\ c[Len(c)].msg = UserMsg

\* C10 as stated: the groups dropped for a name are the union of the sets
\* given for that name to any construction or update in the process.
C10_UnionOfSupplied ==
    \A n \in Names : Suppressed(n) = supplied[n]

\* C10 amended: the groups dropped for a name are the union of the sets given
\* for that name to update_filtered_groups and to successful non-disabled
\* constructions (a construction with LoggerOptions.NO installs no filter);
\* within a process no step takes a group out of that set.
C10_UnionOfInstalled ==
    /\ [](\A n \in Names : Suppressed(n) = installed[n])
    /\ [][last'.op # "restart" => \A n \in Names : Suppressed(n) \subseteq Suppressed(n)']_vars

\* after an update with the empty set a group is still dropped
C10_Witness ==
    /\ last.op = "update"
    /\ facades[last.facade].filtered_groups = {}
    /\ Suppressed(last.log_name) # {}

====
